---- MODULE Spec2Model ----
(***************************************************************************)
(* xstalker: the Daemon event loop (util.py) and the StatManager           *)
(* time-slice accounting (stats.py), as state machines.                    *)
(***************************************************************************)
EXTENDS Integers, Sequences, FiniteSets, TLC

(* ---------------------------------------------------------------------- *)
(* Constants of the program                                                *)
(* ---------------------------------------------------------------------- *)

\* util.py:115-118
NOT_ACTIVATED == 0
ACTIVATED_MANUAL == 1
ACTIVATED_TIMEOUT == 2
ACTIVATED_DATA == 3

\* util.py:149, the ceiling of the reactivation counter
ReactivationCeiling == 100

\* Python's None where an integer is expected (timeout (), timestamps)
None == -1

\* Python's None where a category label (a string) is expected
NoCategory == "None"

\* stats.py:35, Database.version
Database_version == 1

(* ---------------------------------------------------------------------- *)
(* Bounds of the model                                                     *)
(* ---------------------------------------------------------------------- *)

\* number of daemons handed to event_loop, in registration order
NumDaemons == 2
\* largest value an overridden timeout () returns, and the interval_sec of
\* the FixedIntervalTimeoutDaemons
MaxTimeout == 1
\* wall clock values are 0..MaxClock
MaxClock == 1
\* in the general specification only the first MaxRequesters callbacks of a
\* cycle call activate_manually ()
MaxRequesters == 1

\* wall clock values of the StatManager specification are 0..MaxStatTime
MaxStatTime == 3
\* calls of add_time_slice_for_category in a run
MaxSlices == 2
\* length of the filter lists of the category specification
MaxFilters == 2
\* the version numbers found in a store file are 0..MaxVersion
MaxVersion == 2
\* the wall clock of the clock-shift specification jumps within 0..MaxJump
MaxJump == 3

Daemons == 1..NumDaemons
Kinds == {"Daemon", "FixedIntervalTimeoutDaemon"}
Reasons == {NOT_ACTIVATED, ACTIVATED_MANUAL, ACTIVATED_TIMEOUT, ACTIVATED_DATA}

VARIABLES
    \* configuration of the daemons (constant during a run)
    kind,                        \* class of each daemon
    has_fileno,                  \* fileno () is not None
    interval_sec,                \* FixedIntervalTimeoutDaemon._interval_sec
    \* fields of the Daemon objects
    activation_reason,           \* Daemon._activation_reason (pending)
    current_activation_reason,   \* Daemon._current_activation_reason
    activation_counter,          \* Daemon._activation_counter
    next_timeout_timestamp_sec,  \* FixedIntervalTimeoutDaemon._next_timeout_timestamp_sec
    \* locals of event_loop and _activate
    pc,                          \* position of the event loop ("attach": not called yet)
    running,                     \* the daemon d picked at line 186 (0: none)
    continue_event_loop,         \* local of Daemon._activate, line 154
    timeouts,                    \* the values d.timeout () yielded at line 193
    timeout,                     \* local of event_loop, line 191
    lowest_timeout_daemons,      \* local of event_loop, line 192
    activated_daemons,           \* what select returned, line 201
    selector_closed,             \* selector_device.close () was run
    \* environment
    now,                         \* wall clock, seconds
    \* bookkeeping of the model
    cycle_activations            \* activate () calls started per daemon in this cycle

VARIABLES
    \* fields of the StatManager object
    filters,                     \* StatManager.filters: list of (category, predicate)
    current_category,            \* StatManager.current_category.obj
    current_category_since_ts,   \* StatManager.current_category_since_ts
    \* the calls Database.add_time_slice_for_category received, in order
    slices,
    \* argument and local of the latest call of log
    ctx,                         \* the Context handed to log
    cat,                         \* local cat of log, line 105
    stat_op,                     \* the StatManager operation run last
    \* bookkeeping of the model
    held,                        \* per category, the seconds it was current
    open_time                    \* seconds since the current category last changed

VARIABLES
    \* the files of the Database and the position of store_database
    db_file,                     \* content of the file db_file
    temp_file,                   \* content of db_file.with_suffix (".temp")
    same_file,                   \* db_file.with_suffix (".temp") = db_file
    store_pc,                    \* position of Database.store_database
    \* fields of the Database object
    db,                          \* Database.db, the in-memory store
    load_result,                 \* how Database.load_database ended
    \* bookkeeping of the model
    persisted                    \* calls in slices when the store was last written

storeVars == <<db_file, temp_file, store_pc, db, load_result, persisted>>

statVars == <<filters, same_file, current_category, current_category_since_ts, slices,
              ctx, cat, stat_op, held, open_time, storeVars>>

schedVars == <<kind, has_fileno, interval_sec, activation_reason,
               current_activation_reason, activation_counter,
               next_timeout_timestamp_sec, pc, running, continue_event_loop,
               timeouts, timeout, lowest_timeout_daemons, activated_daemons,
               selector_closed, now, cycle_activations>>

vars == <<schedVars, statVars>>

Terminal == {"returned", "fault", "exited", "raised"}

(* ---------------------------------------------------------------------- *)
(* Daemon                                                                  *)
(* ---------------------------------------------------------------------- *)

\* Daemon._is_activated
_is_activated(d) == activation_reason[d] # NOT_ACTIVATED

\* (mutant) only the first daemon's flag is looked at
AnyActivated_first == _is_activated(1)

\* any (map (Daemon._is_activated, daemons))
AnyActivated == \E d \in Daemons : _is_activated(d)

\* (mutant) the last activated daemon is picked
FirstActivated_last == CHOOSE d \in Daemons :
                         /\ _is_activated(d)
                         /\ \A e \in Daemons : _is_activated(e) => e <= d

\* next (filter (Daemon._is_activated, daemons)): first in registration order
FirstActivated == CHOOSE d \in Daemons :
                    /\ _is_activated(d)
                    /\ \A e \in Daemons : _is_activated(e) => d <= e

\* the test of the reactivation counter in Daemon._activate
CounterExceeded(c) == c > ReactivationCeiling

\* FixedIntervalTimeoutDaemon._now
_now == now

Min2(a, b) == IF a < b THEN a ELSE b
Max2(a, b) == IF a > b THEN a ELSE b

\* (mutant) the remaining time is not clamped to the interval
FixedIntervalTimeout_unclamped(d, t) ==
    LET remaining == next_timeout_timestamp_sec[d] - t
    IN  Max2(0, remaining)

\* FixedIntervalTimeoutDaemon.timeout of daemon d, called when _now () reads t
FixedIntervalTimeout(d, t) ==
    LET remaining == next_timeout_timestamp_sec[d] - t
    IN  Max2(0, Min2(remaining, interval_sec[d]))

\* (mutant) only an activation by timeout moves the next timeout
NextTimeoutAfterActivate_timeout_only(d) ==
    IF kind[d] = "FixedIntervalTimeoutDaemon"
       /\ activation_reason[d] = ACTIVATED_TIMEOUT
    THEN [next_timeout_timestamp_sec EXCEPT ![d] = _now + interval_sec[d]]
    ELSE next_timeout_timestamp_sec

\* line 230: FixedIntervalTimeoutDaemon._activate moves the next timeout of d,
\* Daemon._activate has no such field
NextTimeoutAfterActivate(d) ==
    IF kind[d] = "FixedIntervalTimeoutDaemon"
    THEN [next_timeout_timestamp_sec EXCEPT ![d] = _now + interval_sec[d]]
    ELSE next_timeout_timestamp_sec

\* What d._activate () hands back to event_loop once activate () returned r:
\* Daemon._activate returns continue_event_loop, FixedIntervalTimeoutDaemon._activate
\* calls super ()._activate () and drops its result, so it returns None.
ActivateResult(d, r) ==
    IF kind[d] = "FixedIntervalTimeoutDaemon" THEN "None" ELSE r

\* the test "d._activate () == False" of event_loop
StopsLoop(res) == res = "False"

\* (mutant) the counters are not reset when a cycle starts
ResetCounters_kept == activation_counter

\* The counters as event_loop leaves them at the start of a cycle (183-184)
ResetCounters == [d \in Daemons |-> 0]

\* line 152: the pending reason of d becomes its current reason
CurrentDuringActivate(d) ==
    [current_activation_reason EXCEPT ![d] = activation_reason[d]]

\* line 153: the pending reason of d is cleared
PendingCleared(d) == [activation_reason EXCEPT ![d] = NOT_ACTIVATED]

\* (mutant) the current reason is left as it is when activate () returned
CurrentAfterActivate_kept(d) == current_activation_reason

\* line 155: the current reason of d is reset once activate () returned
CurrentAfterActivate(d) ==
    [current_activation_reason EXCEPT ![d] = NOT_ACTIVATED]

\* line 137: the pending reason of d after d.activate_manually ()
ManuallyActivated(d) == [activation_reason EXCEPT ![d] = ACTIVATED_MANUAL]

(* ---------------------------------------------------------------------- *)
(* event_loop                                                              *)
(* ---------------------------------------------------------------------- *)

\* The daemons after construction, of classes k and with the descriptors f,
\* and the locals of event_loop before its first cycle
DaemonsConstructed(k, f) ==
    /\ kind = k
    /\ has_fileno = f
    /\ interval_sec = [d \in Daemons |->
                         IF k[d] = "FixedIntervalTimeoutDaemon" THEN MaxTimeout
                         ELSE None]
    /\ now = 0
    /\ next_timeout_timestamp_sec =
          [d \in Daemons |-> IF k[d] = "FixedIntervalTimeoutDaemon"
                             THEN now + MaxTimeout ELSE None]
    /\ activation_reason = [d \in Daemons |-> NOT_ACTIVATED]
    /\ current_activation_reason = [d \in Daemons |-> NOT_ACTIVATED]
    /\ activation_counter = [d \in Daemons |-> 0]
    /\ running = 0
    /\ continue_event_loop = "unset"
    /\ timeouts = [d \in Daemons |-> None]
    /\ timeout = None
    /\ lowest_timeout_daemons = <<>>
    /\ activated_daemons = {}
    /\ selector_closed = FALSE
    /\ cycle_activations = [d \in Daemons |-> 0]

\* event_loop has registered the descriptors and is at line 181
LoopEntered == pc = "cycle"

\* any daemons, handed to event_loop
InitDaemons ==
    /\ \E k \in [Daemons -> Kinds], f \in [Daemons -> BOOLEAN] :
          DaemonsConstructed(k, f)
    /\ LoopEntered

\* the daemons of xstalker: the Backend (a descriptor, no timeout) first,
\* the StatManager (a FixedIntervalTimeoutDaemon without descriptor) second
ShippedConstructed ==
    DaemonsConstructed(
        [d \in Daemons |-> IF d = 2 THEN "FixedIntervalTimeoutDaemon" ELSE "Daemon"],
        [d \in Daemons |-> d = 1])

\* the daemons of xstalker, handed to event_loop
InitShipped == ShippedConstructed /\ LoopEntered

config == <<kind, has_fileno, interval_sec>>
waitLocals == <<timeouts, timeout, lowest_timeout_daemons, activated_daemons>>

\* event_loop is left (return or exception): the finally clause closes the
\* selector and the outcome how stands, unless SIGTERM arrives while the
\* clause runs, before close () or after it: the SystemExit of the handler
\* replaces the outcome. The locals of the wait phase are gone.
LeaveLoop(how) ==
    /\ \/ pc' = how /\ selector_closed' = TRUE
       \/ pc' = "exited" /\ selector_closed' = FALSE
       \/ how # "exited" /\ pc' = "exited" /\ selector_closed' = TRUE
    /\ timeouts' = [d \in Daemons |-> None]
    /\ timeout' = None
    /\ lowest_timeout_daemons' = <<>>
    /\ activated_daemons' = {}

\* lines 183-184: a cycle starts, every counter is reset
StartCycle ==
    /\ pc = "cycle"
    /\ activation_counter' = ResetCounters
    /\ cycle_activations' = [d \in Daemons |-> 0]
    /\ pc' = "drain"
    \* timeouts, timeout and lowest_timeout_daemons are dead until lines 191-193
    \* set them again, and so is continue_event_loop until line 154
    /\ timeouts' = [d \in Daemons |-> None]
    /\ timeout' = None
    /\ lowest_timeout_daemons' = <<>>
    /\ continue_event_loop' = "unset"
    /\ running' = 0
    /\ UNCHANGED <<config, statVars, activation_reason, current_activation_reason,
                   next_timeout_timestamp_sec, activated_daemons,
                   selector_closed, now>>

\* lines 185-187 and Daemon._activate up to the call of activate ()
\* (FixedIntervalTimeoutDaemon._activate first moves the next timeout)
Activate ==
    /\ pc = "drain"
    /\ AnyActivated
    /\ LET d == FirstActivated
           c == activation_counter[d] + 1
       IN  /\ running' = d
           /\ next_timeout_timestamp_sec' = NextTimeoutAfterActivate(d)
           /\ activation_counter' = [activation_counter EXCEPT ![d] = c]
           /\ IF CounterExceeded(c)
              THEN \* RuntimeError leaves event_loop through the finally clause
                   /\ LeaveLoop("fault")
                   /\ UNCHANGED <<activation_reason, current_activation_reason,
                                  continue_event_loop, cycle_activations>>
              ELSE /\ current_activation_reason' = CurrentDuringActivate(d)
                   /\ activation_reason' = PendingCleared(d)
                   /\ continue_event_loop' = "unset"
                   /\ cycle_activations' =
                         [cycle_activations EXCEPT ![d] = @ + 1]
                   /\ pc' = "callback"
                   /\ UNCHANGED <<selector_closed, waitLocals>>
    /\ UNCHANGED <<config, statVars, now>>

\* Daemon.activate_manually, called on daemon d by the callback that runs
activate_manually(d) ==
    /\ pc = "callback"
    /\ activation_reason' = ManuallyActivated(d)
    /\ UNCHANGED <<config, statVars, current_activation_reason, activation_counter,
                   next_timeout_timestamp_sec, pc, running, continue_event_loop,
                   waitLocals, selector_closed, now, cycle_activations>>

\* activate () returns r; lines 155-156 and 187-188
ActivateReturns(r) ==
    /\ pc = "callback"
    /\ continue_event_loop' = r
    /\ current_activation_reason' = CurrentAfterActivate(running)
    /\ IF StopsLoop(ActivateResult(running, r))
       THEN LeaveLoop("returned")
       ELSE /\ pc' = "drain"
            /\ UNCHANGED <<selector_closed, waitLocals>>
    /\ running' = 0
    /\ UNCHANGED <<config, statVars, activation_reason, activation_counter,
                   next_timeout_timestamp_sec, now, cycle_activations>>

\* activate () raises: the exception leaves _activate and event_loop
ActivateRaises ==
    /\ pc = "callback"
    /\ LeaveLoop("raised")
    /\ UNCHANGED <<config, statVars, activation_reason, current_activation_reason,
                   activation_counter, next_timeout_timestamp_sec, running,
                   continue_event_loop, now, cycle_activations>>

\* (mutant) a daemon tied with the lowest timeout is not appended
RECURSIVE LowestTimeout_single(_, _, _, _)
LowestTimeout_single(i, tv, t, lowest) ==
    IF i > NumDaemons THEN <<t, lowest>>
    ELSE IF tv[i] # None /\ (t = None \/ tv[i] < t)
         THEN LowestTimeout_single(i + 1, tv, tv[i], <<i>>)
         ELSE LowestTimeout_single(i + 1, tv, t, lowest)

\* lines 193-199, folded over daemons i..NumDaemons with the timeouts tv
RECURSIVE LowestTimeout(_, _, _, _)
LowestTimeout(i, tv, t, lowest) ==
    IF i > NumDaemons THEN <<t, lowest>>
    ELSE IF tv[i] # None
         THEN IF t = None \/ tv[i] < t
              THEN LowestTimeout(i + 1, tv, tv[i], <<i>>)
              ELSE IF tv[i] = t
                   THEN LowestTimeout(i + 1, tv, t, Append(lowest, i))
                   ELSE LowestTimeout(i + 1, tv, t, lowest)
         ELSE LowestTimeout(i + 1, tv, t, lowest)

\* Line 193 calls timeout () of every daemon in turn and each
\* FixedIntervalTimeoutDaemon reads the wall clock in its own call (the other
\* daemons do not look at it): r[d] is the clock during the call of the
\* fixed-interval daemon d. ReadingBefore is the clock at the reading before
\* that of d (the clock of the state, for the first of them).
ClockReaders == {d \in Daemons : kind[d] = "FixedIntervalTimeoutDaemon"}

ReadingBefore(r, d) ==
    LET earlier == {e \in ClockReaders : e < d}
    IN  IF earlier = {} THEN now
        ELSE r[CHOOSE e \in earlier : \A f \in earlier : f <= e]

\* the clock at the last reading of r
LastReading(r) == ReadingBefore(r, NumDaemons + 1)

\* seconds pass between the readings
PassingReadings ==
    {r \in [ClockReaders -> now..Max2(now, MaxClock)] :
        \A d \in ClockReaders : ReadingBefore(r, d) <= r[d]}

\* the clock is set, backward or forward, between the readings
ShiftedReadings == [ClockReaders -> 0..MaxJump]

\* what the timeout () overrides of the other daemons return
TimeoutOverrides ==
    [Daemons \ ClockReaders -> {None} \cup (0..MaxTimeout)]

\* the values line 193 yields with the clock readings r and the overrides o
TimeoutsRead(r, o) ==
    [d \in Daemons |-> IF d \in ClockReaders
                        THEN FixedIntervalTimeout(d, r[d]) ELSE o[d]]

\* the drain loop of line 185 ends: nobody is activated
DrainEnds ==
    /\ pc = "drain"
    /\ ~AnyActivated

\* lines 190-201 with the clock readings r: compute the timeout and call
\* select
WaitReading(r) ==
    /\ \E o \in TimeoutOverrides :
          LET tv == TimeoutsRead(r, o)
              res == LowestTimeout(1, tv, None, <<>>)
          IN  /\ timeouts' = tv
              /\ timeout' = res[1]
              /\ lowest_timeout_daemons' = res[2]
    /\ now' = LastReading(r)
    /\ pc' = "select"
    /\ continue_event_loop' = "unset"
    /\ UNCHANGED <<config, statVars, activation_reason, current_activation_reason,
                   activation_counter, next_timeout_timestamp_sec, running,
                   activated_daemons, selector_closed, cycle_activations>>

\* lines 190-201 while time passes
Wait ==
    /\ DrainEnds
    /\ \E r \in PassingReadings : WaitReading(r)

\* lines 190-201 on a wall clock that is being set
WaitClockJump ==
    /\ DrainEnds
    /\ \E r \in ShiftedReadings : WaitReading(r)

\* the daemons registered with the selector, lines 177-179
Registered == {d \in Daemons : has_fileno[d]}

\* (mutant) a wake by data marks every daemon
AfterSelect_every(ready) ==
    IF ready # {}
    THEN [d \in Daemons |-> ACTIVATED_DATA]
    ELSE [d \in Daemons |->
            IF \E k \in 1..Len(lowest_timeout_daemons) : lowest_timeout_daemons[k] = d
            THEN ACTIVATED_TIMEOUT ELSE activation_reason[d]]

\* The pending reasons after select returned the daemons ready (lines 202-208)
AfterSelect(ready) ==
    IF ready # {}
    THEN [d \in Daemons |-> IF d \in ready THEN ACTIVATED_DATA
                            ELSE activation_reason[d]]
    ELSE [d \in Daemons |->
            IF \E k \in 1..Len(lowest_timeout_daemons) : lowest_timeout_daemons[k] = d
            THEN ACTIVATED_TIMEOUT ELSE activation_reason[d]]

\* select returns with data on the descriptors of ready
SelectData(ready) ==
    /\ pc = "select"
    /\ ready # {}
    /\ ready \subseteq Registered
    /\ activated_daemons' = ready
    /\ activation_reason' = AfterSelect(ready)
    /\ pc' = "cycle"
    /\ UNCHANGED <<config, statVars, current_activation_reason, activation_counter,
                   next_timeout_timestamp_sec, running, continue_event_loop,
                   timeouts, timeout, lowest_timeout_daemons, selector_closed,
                   now, cycle_activations>>

\* select returns empty after the timeout (never when timeout is None)
SelectTimeout ==
    /\ pc = "select"
    /\ timeout # None
    /\ activated_daemons' = {}
    /\ activation_reason' = AfterSelect({})
    /\ pc' = "cycle"
    /\ UNCHANGED <<config, statVars, current_activation_reason, activation_counter,
                   next_timeout_timestamp_sec, running, continue_event_loop,
                   timeouts, timeout, lowest_timeout_daemons, selector_closed,
                   now, cycle_activations>>

\* lines 168-171: SIGTERM makes the handler raise SystemExit where the loop
\* is, here at a line where the fields are as a step of event_loop left them
\* (the start of a cycle, the test of the drain loop, the wait phase and the
\* blocking select, a callback that runs); the finally clause is next
sigterm_handler ==
    /\ pc \in {"cycle", "drain", "select", "callback"}
    /\ LeaveLoop("exited")
    /\ UNCHANGED <<config, statVars, activation_reason, current_activation_reason,
                   activation_counter, next_timeout_timestamp_sec, running,
                   continue_event_loop, now, cycle_activations>>

\* the counters when the loop of lines 183-184 has reset the first k daemons
CountersResetUpTo(k) ==
    [d \in Daemons |-> IF d <= k THEN 0 ELSE activation_counter[d]]

\* SIGTERM inside the loop of lines 183-184, between two of its iterations
\* (before the first one and after the last one the fields are those of a
\* step of event_loop: sigterm_handler)
sigterm_in_reset ==
    /\ pc = "cycle"
    /\ \E k \in 1..(NumDaemons - 1) : activation_counter' = CountersResetUpTo(k)
    /\ LeaveLoop("exited")
    /\ UNCHANGED <<config, statVars, activation_reason, current_activation_reason,
                   next_timeout_timestamp_sec, running, continue_event_loop,
                   now, cycle_activations>>

\* SIGTERM inside d._activate (), before activate () is called: at line 231
\* (FixedIntervalTimeoutDaemon: the next timeout was moved), at 149-152 (the
\* counter was incremented too), at 153 (the pending reason was captured and
\* is not yet cleared)
sigterm_in_activate ==
    /\ pc = "drain"
    /\ AnyActivated
    /\ LET d == FirstActivated
           c == activation_counter[d] + 1
       IN  /\ running' = d
           /\ next_timeout_timestamp_sec' = NextTimeoutAfterActivate(d)
           /\ \E line \in {231, 149, 153} :
                 /\ line = 231 => kind[d] = "FixedIntervalTimeoutDaemon"
                 /\ activation_counter' =
                       IF line = 231 THEN activation_counter
                       ELSE [activation_counter EXCEPT ![d] = c]
                 /\ line = 153 => ~CounterExceeded(c)
                 /\ current_activation_reason' =
                       IF line = 153 THEN CurrentDuringActivate(d)
                       ELSE current_activation_reason
    /\ LeaveLoop("exited")
    /\ UNCHANGED <<config, statVars, activation_reason, continue_event_loop,
                   now, cycle_activations>>

\* SIGTERM at line 155: activate () has returned r, the current reason is
\* not reset yet
sigterm_in_return(r) ==
    /\ pc = "callback"
    /\ continue_event_loop' = r
    /\ LeaveLoop("exited")
    /\ UNCHANGED <<config, statVars, activation_reason, current_activation_reason,
                   activation_counter, next_timeout_timestamp_sec, running,
                   now, cycle_activations>>

\* the pending reasons when the loop of lines 207-208 has marked the first k
\* daemons of lowest_timeout_daemons
TimeoutMarkedUpTo(k) ==
    [d \in Daemons |->
        IF \E j \in 1..k : lowest_timeout_daemons[j] = d
        THEN ACTIVATED_TIMEOUT ELSE activation_reason[d]]

\* SIGTERM inside the loops that mark the woken daemons, between two of
\* their iterations: select returned several registered daemons and the
\* loop of lines 203-204 has marked the daemons marked among them, or select
\* timed out and the loop of lines 207-208 has marked a part of
\* lowest_timeout_daemons (before the first iteration the fields are those
\* of the blocking select, after the last one those of the next cycle:
\* sigterm_handler)
sigterm_in_wake ==
    /\ pc = "select"
    /\ \/ \E marked \in SUBSET Registered :
             /\ marked # {}
             /\ marked # Registered
             /\ activation_reason' = AfterSelect(marked)
       \/ /\ timeout # None
          /\ \E k \in 1..(Len(lowest_timeout_daemons) - 1) :
                activation_reason' = TimeoutMarkedUpTo(k)
    /\ LeaveLoop("exited")
    /\ UNCHANGED <<config, statVars, current_activation_reason, activation_counter,
                   next_timeout_timestamp_sec, running, continue_event_loop,
                   now, cycle_activations>>

\* A second of wall clock passes while select blocks or a callback runs
\* (the wait phase has the seconds that pass between its own readings).
\* event_loop reads the clock through timeout () and _activate of the
\* FixedIntervalTimeoutDaemons only.
Tick ==
    /\ pc \in {"select", "callback"}
    /\ \E d \in Daemons : kind[d] = "FixedIntervalTimeoutDaemon"
    /\ now < MaxClock
    /\ now' = now + 1
    /\ UNCHANGED <<config, statVars, activation_reason, current_activation_reason,
                   activation_counter, next_timeout_timestamp_sec, pc, running,
                   continue_event_loop, waitLocals, selector_closed,
                   cycle_activations>>

\* The wall clock is set to another value (a clock shift, backward or
\* forward), while select blocks or a callback runs
ClockJump ==
    /\ pc \in {"select", "callback"}
    /\ \E t \in 0..MaxJump : t # now /\ now' = t
    /\ UNCHANGED <<config, statVars, activation_reason, current_activation_reason,
                   activation_counter, next_timeout_timestamp_sec, pc, running,
                   continue_event_loop, waitLocals, selector_closed,
                   cycle_activations>>

\* the number of callbacks started in this cycle by daemons 1..n
RECURSIVE ActivationsInCycle(_)
ActivationsInCycle(n) ==
    IF n = 0 THEN 0 ELSE activation_counter[n] + ActivationsInCycle(n - 1)

\* a callback asks for the activation of any daemon, itself included
ManualAny ==
    /\ ActivationsInCycle(NumDaemons) <= MaxRequesters
    /\ \E d \in Daemons : activate_manually(d)

(* ---------------------------------------------------------------------- *)
(* StatManager                                                             *)
(* ---------------------------------------------------------------------- *)

Labels == {"work", "browser"}
WinNames == {"ide-something", "mail"}
WinClasses == {"firefox", "editor"}

\* stats.Context: the lower-cased name and class of a window
Contexts == [win_name : WinNames, win_class : WinClasses]

\* the Context of a window without name and class
NoContext == [win_name |-> "None", win_class |-> "None"]

\* an entry of StatManager.filters; the predicate is the set it accepts
Filters == [c : Labels, p : SUBSET Contexts]

FilterLists == UNION {[1..n -> Filters] : n \in 0..MaxFilters}

\* the filters of the example of the specification
ShippedFilters ==
    << [c |-> "work", p |-> {x \in Contexts : x.win_name = "ide-something"}],
       [c |-> "browser", p |-> {x \in Contexts : x.win_class = "firefox"}] >>

\* Optional.has_value
has_value(obj) == obj # NoCategory

\* Optional.__eq__ of an Optional holding obj with other, a value that is
\* not an Optional (log compares with the str or None of determine_category):
\* the branch of the empty Optionals needs isinstance (other, Optional)
OptionalEq(obj, other) == has_value(obj) /\ other = obj

\* (mutant) the last matching filter wins
RECURSIVE determine_category_last(_, _)
determine_category_last(fs, x) ==
    IF fs = <<>> THEN NoCategory
    ELSE IF x \in fs[Len(fs)].p THEN fs[Len(fs)].c
         ELSE determine_category_last(SubSeq(fs, 1, Len(fs) - 1), x)

\* the loop of StatManager.determine_category from the i-th filter on
RECURSIVE determine_category_from(_, _, _)
determine_category_from(fs, x, i) ==
    IF i > Len(fs) THEN NoCategory
    ELSE IF x \in fs[i].p THEN fs[i].c
         ELSE determine_category_from(fs, x, i + 1)

\* StatManager.determine_category
determine_category(fs, x) == determine_category_from(fs, x, 1)

\* (mutant) the slice is flushed twice
end_current_time_slice_twice ==
    IF has_value(current_category)
    THEN slices \o << <<current_category, current_category_since_ts, now>>,
                     <<current_category, current_category_since_ts, now>> >>
    ELSE slices

\* (mutant) the slice is flushed with the timestamp already overwritten
end_current_time_slice_late ==
    IF has_value(current_category)
    THEN Append(slices, <<current_category, now, now>>)
    ELSE slices

\* StatManager.end_current_time_slice: the calls the store has received
\* afterwards (the method returns now)
end_current_time_slice ==
    IF has_value(current_category)
    THEN Append(slices, <<current_category, current_category_since_ts, now>>)
    ELSE slices

(* ---------------------------------------------------------------------- *)
(* Database                                                                *)
(* ---------------------------------------------------------------------- *)

\* What a file holds. A store file is a pickle stream whose first object is
\* the version: kind tells what pickle.load finds there.
MissingFile == [kind |-> "missing", version |-> None]     \* no such file
EmptyFile == [kind |-> "empty", version |-> None]         \* zero bytes
\* a pickle cut inside an opcode or its argument (b'\x80', b'\x80\x04K')
TruncatedFile == [kind |-> "truncated", version |-> None]
\* a pickle cut between two opcodes, before STOP (b'\x80\x04', b'\x80\x04K\x01')
UnterminatedFile == [kind |-> "unterminated", version |-> None]
StrFile == [kind |-> "str", version |-> None]             \* a pickled str
IntFile(v) == [kind |-> "int", version |-> v]             \* the pickled int v
BoolFile(v) == [kind |-> "bool", version |-> v]           \* pickled False (0), True (1)

FileContents ==
    {MissingFile, EmptyFile, TruncatedFile, UnterminatedFile, StrFile}
    \cup {IntFile(v) : v \in 0..MaxVersion}
    \cup {BoolFile(v) : v \in 0..1}

\* Database.store: what a completed store writes
Stored == IntFile(Database_version)

\* Database.load on the content f of an existing file: "ok" or the exception
\* raised (bool is a subclass of int, and True == 1). pickle.load raises
\* EOFError when the stream ends where an opcode is expected, UnpicklingError
\* when it ends inside one
load(f) ==
    IF f.kind \in {"empty", "unterminated"} THEN "EOFError"
    ELSE IF f.kind = "truncated" THEN "UnpicklingError"
    ELSE IF f.kind \notin {"int", "bool"} THEN "ValueError"
    ELSE IF f.version # Database_version THEN "ValueError"
    ELSE "ok"

\* (mutant) only FileNotFoundError is caught
load_database_uncaught(f) ==
    IF f.kind = "missing" THEN "not_found"
    ELSE IF load(f) = "ok" THEN "loaded" ELSE "raised"

\* Database.load_database on the file content f: how it ends
load_database(f) ==
    IF f.kind = "missing" THEN "not_found"
    ELSE IF load(f) = "ok" THEN "loaded" ELSE "error"

\* lines 76-77: <<db_file, temp_file>> once temp_file.open ("wb") returned.
\* The temporary path is db_file.with_suffix (".temp"): for a db_file whose
\* suffix is ".temp" already it is db_file itself, which is emptied
OpenedForStore ==
    IF same_file THEN <<EmptyFile, EmptyFile>> ELSE <<db_file, EmptyFile>>

\* line 78 and the end of the with block: <<db_file, temp_file>> once w
\* reached the temporary file
WrittenForStore(w) == IF same_file THEN <<w, w>> ELSE <<db_file, w>>

\* line 81: <<db_file, temp_file>> after temp_file.rename (db_file); the
\* rename of a file to itself leaves it where it is
Renamed ==
    IF same_file THEN <<temp_file, temp_file>> ELSE <<temp_file, MissingFile>>

\* Database.store_database run to its end: <<db_file, temp_file>>
store_database ==
    IF same_file THEN <<Stored, Stored>> ELSE <<Stored, MissingFile>>

\* the files a process may find when it starts: any store file, and at the
\* temporary path nothing or what an earlier store_database left there
FilesAtStart ==
    FileContents \X {MissingFile, EmptyFile, TruncatedFile, UnterminatedFile, Stored}

\* the store path config["db_file"]: a path with another suffix than
\* ".temp", the temporary file being another file
TempBesideStore == same_file = FALSE

\* the store path config["db_file"]: any path
AnyStorePath == same_file \in BOOLEAN

\* Database.__init__ on a store file holding f, with t at the temporary path
DatabaseConstructed(f, t) ==
    /\ db_file = f
    /\ temp_file = t
    /\ store_pc = "idle"
    /\ db = {}
    /\ load_result = load_database(f)
    /\ persisted = 0

\* StatManager after __init__, on a first run (no store file yet)
StatManagerConstructed(fs) ==
    /\ filters = fs
    /\ current_category = NoCategory
    /\ current_category_since_ts = None
    /\ slices = <<>>
    /\ ctx = NoContext
    /\ cat = NoCategory
    /\ stat_op = "init"
    /\ held = [l \in Labels |-> 0]
    /\ open_time = 0
    /\ DatabaseConstructed(MissingFile, MissingFile)

daemonVars == <<kind, has_fileno, interval_sec, activation_reason,
                current_activation_reason, activation_counter,
                next_timeout_timestamp_sec, pc, running, continue_event_loop,
                timeouts, timeout, lowest_timeout_daemons, activated_daemons,
                selector_closed, cycle_activations>>

\* StatManager.log on the fields of the StatManager
StatManager_log(x) ==
    /\ Len(slices) < MaxSlices
    /\ stat_op' = "log"
    /\ ctx' = x
    /\ LET c == determine_category(filters, x)
       IN  /\ cat' = c
           /\ IF ~OptionalEq(current_category, c)
              THEN /\ slices' = end_current_time_slice
                   /\ current_category' = c
                   /\ current_category_since_ts' = now
              ELSE UNCHANGED <<slices, current_category,
                               current_category_since_ts>>
           /\ open_time' = IF c # current_category THEN 0 ELSE open_time
    /\ UNCHANGED <<storeVars, now, filters, same_file, held>>

\* StatManager.log, called while the daemons are as they are
log(x) ==
    /\ StatManager_log(x)
    /\ UNCHANGED daemonVars

\* a second of wall clock passes for the StatManager
StatTick ==
    /\ now < MaxStatTime
    /\ now' = now + 1
    /\ stat_op' = "tick"
    /\ held' = IF current_category \in Labels
               THEN [held EXCEPT ![current_category] = @ + 1]
               ELSE held
    /\ open_time' = open_time + 1
    /\ UNCHANGED <<daemonVars, storeVars, filters, same_file, current_category,
                   current_category_since_ts, slices, ctx, cat>>

\* determine_category is called on the context x
Determine(x) ==
    /\ stat_op' = "determine"
    /\ ctx' = x
    /\ cat' = determine_category(filters, x)
    /\ UNCHANGED <<daemonVars, storeVars, now, filters, same_file, current_category,
                   current_category_since_ts, slices, held, open_time>>

\* StatManager.__init__ in a process that starts on the files as they are:
\* Database.__init__ runs load_database; an exception leaving it would end
\* the construction
StatManager_init ==
    /\ stat_op \in {"start", "interrupted"}
    /\ db' = {}
    /\ load_result' = load_database(db_file)
    /\ stat_op' = IF load_result' = "raised" THEN "init_raised" ELSE "init"
    /\ store_pc' = "idle"
    /\ UNCHANGED <<daemonVars, now, filters, same_file, current_category,
                   current_category_since_ts, slices, ctx, cat, held,
                   open_time, db_file, temp_file, persisted>>

\* store_database, lines 76-77: the temporary file is created or truncated
StoreOpen ==
    /\ stat_op = "init"
    /\ store_pc = "idle"
    /\ db_file' = OpenedForStore[1]
    /\ temp_file' = OpenedForStore[2]
    /\ store_pc' = "open"
    /\ UNCHANGED <<daemonVars, now, filters, same_file, current_category,
                   current_category_since_ts, slices, ctx, cat, stat_op, held,
                   open_time, db, load_result, persisted>>

\* store_database, line 78 and the end of the with block: the store is
\* written to the temporary file, which is closed
StoreWrite ==
    /\ store_pc = "open"
    /\ db_file' = WrittenForStore(Stored)[1]
    /\ temp_file' = WrittenForStore(Stored)[2]
    /\ store_pc' = "closed"
    /\ UNCHANGED <<daemonVars, now, filters, same_file, current_category,
                   current_category_since_ts, slices, ctx, cat, stat_op, held,
                   open_time, db, load_result, persisted>>

\* store_database, line 81: the temporary file replaces the store file
StoreRename ==
    /\ store_pc = "closed"
    /\ db_file' = Renamed[1]
    /\ temp_file' = Renamed[2]
    /\ store_pc' = "idle"
    /\ UNCHANGED <<daemonVars, now, filters, same_file, current_category,
                   current_category_since_ts, slices, ctx, cat, stat_op, held,
                   open_time, db, load_result, persisted>>

\* store_database is interrupted (a crash, an exception) while the temporary
\* file is written, or before the rename: the temporary file holds whatever
\* reached it, and the process is over
StoreInterrupted ==
    /\ store_pc \in {"open", "closed"}
    /\ \E w \in IF store_pc = "open"
               THEN {EmptyFile, TruncatedFile, UnterminatedFile, Stored}
               ELSE {temp_file} :
          /\ db_file' = WrittenForStore(w)[1]
          /\ temp_file' = WrittenForStore(w)[2]
    /\ store_pc' = "idle"
    /\ stat_op' = "interrupted"
    /\ UNCHANGED <<daemonVars, now, filters, same_file, current_category,
                   current_category_since_ts, slices, ctx, cat, held,
                   open_time, db, load_result, persisted>>

(* ---------------------------------------------------------------------- *)
(* xstalker: the Backend and the StatManager under event_loop              *)
(* ---------------------------------------------------------------------- *)

\* (mutant) the periodic save ends the current slice
activate_effect_flushing ==
    [slices |-> end_current_time_slice, files |-> store_database,
     persisted |-> Len(end_current_time_slice)]

\* StatManager.activate past its assertion: the calls the store has received
\* and the files afterwards
activate_effect ==
    [slices |-> slices, files |-> store_database, persisted |-> Len(slices)]

\* StatManager.cleanup: end_current_time_slice, then store_database
cleanup ==
    [slices |-> end_current_time_slice, files |-> store_database,
     persisted |-> Len(end_current_time_slice)]

\* StatManager.activate as the callback of daemon 2, with the end of
\* _activate and the test of event_loop: the assertion on the reason, the
\* store, and None handed back
StatManager_activate ==
    /\ pc = "callback"
    /\ running = 2
    /\ stat_op' = "activate"
    /\ IF current_activation_reason[2] = ACTIVATED_TIMEOUT
       THEN /\ slices' = activate_effect.slices
            /\ db_file' = activate_effect.files[1]
            /\ temp_file' = activate_effect.files[2]
            /\ persisted' = activate_effect.persisted
            /\ continue_event_loop' = "None"
            /\ current_activation_reason' = CurrentAfterActivate(2)
            /\ running' = 0
            /\ IF StopsLoop(ActivateResult(2, "None"))
               THEN LeaveLoop("returned")
               ELSE /\ pc' = "drain"
                    /\ UNCHANGED <<selector_closed, waitLocals>>
       ELSE \* AssertionError leaves activate, _activate and event_loop
            /\ LeaveLoop("raised")
            /\ UNCHANGED <<slices, db_file, temp_file, persisted,
                           continue_event_loop, current_activation_reason,
                           running>>
    /\ UNCHANGED <<config, activation_reason, activation_counter,
                   next_timeout_timestamp_sec, now, cycle_activations,
                   filters, same_file, current_category, current_category_since_ts,
                   ctx, cat, held, open_time, store_pc, db, load_result>>

\* the callback the Backend was given with attach: StatManager.log
callback(x) == log(x)

\* Backend.handle_events got a focus change and active_window_changed
\* resolved the window to the context x (NoContext: no name, no class)
active_window_changed(x) ==
    /\ pc = "callback"
    /\ running = 1
    /\ callback(x)

\* Backend.handle_events got a focus change and get_active_window_id
\* raised (malformed or unreadable _NET_ACTIVE_WINDOW): nothing catches it
\* in active_window_changed, handle_events, activate, _activate, event_loop
active_window_unresolved ==
    /\ pc = "callback"
    /\ running = 1
    /\ stat_op' = "unresolved"
    /\ LeaveLoop("raised")
    /\ UNCHANGED <<config, activation_reason, current_activation_reason,
                   activation_counter, next_timeout_timestamp_sec, running,
                   continue_event_loop, now, cycle_activations,
                   filters, same_file, current_category, current_category_since_ts,
                   slices, ctx, cat, held, open_time, storeVars>>

\* Backend.activate returns True once handle_events has polled every event
Backend_activate ==
    /\ running = 1
    /\ ActivateReturns("True")

\* SIGTERM at line 155 of util.py, Backend.activate having returned True
Backend_sigterm_in_return ==
    /\ running = 1
    /\ sigterm_in_return("True")

\* the fields of the daemons and the locals of event_loop, its position apart
loopVars == <<config, activation_reason, current_activation_reason,
              activation_counter, next_timeout_timestamp_sec, running,
              continue_event_loop, waitLocals, selector_closed,
              cycle_activations>>

\* Backend.attach (callback), called before event_loop: line 73 keeps the
\* callback and line 74 calls active_window_changed, which resolves the
\* focused window to the context x and hands it to the callback
attach(x) ==
    /\ pc = "attach"
    /\ StatManager_log(x)
    /\ pc' = "cycle"
    /\ UNCHANGED loopVars

\* Backend.attach when get_active_window_id raises at line 74: the exception
\* leaves attach and event_loop is never called
attach_unresolved ==
    /\ pc = "attach"
    /\ stat_op' = "unresolved"
    /\ pc' = "raised"
    /\ UNCHANGED <<loopVars, now, filters, same_file, current_category,
                   current_category_since_ts, slices, ctx, cat, held,
                   open_time, storeVars>>

\* SIGTERM inside StatManager.log, called by the Backend (daemon 1) with the
\* context x of another category than the current one: at line 108 (the
\* slice was ended, the category is not set yet), or at line 109 (the
\* category was set, the since-timestamp is the old one)
sigterm_in_log(x) ==
    /\ pc = "callback"
    /\ running = 1
    /\ Len(slices) < MaxSlices
    /\ stat_op' = "log_interrupted"
    /\ ctx' = x
    /\ LET c == determine_category(filters, x)
       IN  /\ cat' = c
           /\ ~OptionalEq(current_category, c)
           /\ slices' = end_current_time_slice
           /\ \E line \in {108, 109} :
                 current_category' = IF line = 109 THEN c ELSE current_category
    /\ LeaveLoop("exited")
    /\ UNCHANGED <<config, activation_reason, current_activation_reason,
                   activation_counter, next_timeout_timestamp_sec, running,
                   continue_event_loop, now, cycle_activations, filters, same_file,
                   current_category_since_ts, held, open_time, storeVars>>

\* SIGTERM inside StatManager.activate, past its assertion: in
\* store_database once the temporary file is open (line 78), once it is
\* written and closed (line 81), once it is renamed (line 82), and at line
\* 155 of util.py, activate () having returned None
sigterm_in_store ==
    /\ pc = "callback"
    /\ running = 2
    /\ current_activation_reason[2] = ACTIVATED_TIMEOUT
    /\ stat_op' = "activate_interrupted"
    /\ \E line \in {78, 81, 82, 155} :
          /\ db_file' = IF line = 78 THEN OpenedForStore[1]
                         ELSE IF line = 81 THEN WrittenForStore(Stored)[1]
                         ELSE activate_effect.files[1]
          /\ temp_file' = IF line = 78 THEN OpenedForStore[2]
                           ELSE IF line = 81 THEN WrittenForStore(Stored)[2]
                           ELSE activate_effect.files[2]
          /\ persisted' = IF line \in {78, 81} THEN persisted
                           ELSE activate_effect.persisted
          /\ continue_event_loop' = IF line = 155 THEN "None"
                                     ELSE continue_event_loop
    /\ LeaveLoop("exited")
    /\ UNCHANGED <<config, activation_reason, current_activation_reason,
                   activation_counter, next_timeout_timestamp_sec, running,
                   now, cycle_activations, filters, same_file, current_category,
                   current_category_since_ts, slices, ctx, cat, held,
                   open_time, store_pc, db, load_result>>

\* Only the StatManager overrides timeout (): the Backend, a plain Daemon,
\* reports None in every wait
Backend_wait ==
    /\ Wait
    /\ \A d \in Daemons : kind[d] = "Daemon" => timeouts'[d] = None

\* A window source whose callback hands False to event_loop
WindowSourceStops ==
    /\ running = 1
    /\ ActivateReturns("False")

\* SIGTERM at line 155 of util.py, that callback having returned False
WindowSourceStops_sigterm_in_return ==
    /\ running = 1
    /\ sigterm_in_return("False")

\* StatManager.cleanup was entered: nothing of the process runs after it
ProcessEnded == stat_op \in {"cleanup", "cleanup_interrupted"}

\* StatManager.cleanup is called, once, as the last operation
StatManager_cleanup ==
    /\ ~ProcessEnded
    /\ stat_op' = "cleanup"
    /\ slices' = cleanup.slices
    /\ db_file' = cleanup.files[1]
    /\ temp_file' = cleanup.files[2]
    /\ persisted' = cleanup.persisted
    /\ UNCHANGED <<daemonVars, now, filters, same_file, current_category,
                   current_category_since_ts, ctx, cat, held, open_time,
                   store_pc, db, load_result>>

\* SIGTERM while StatManager.cleanup runs. The handler of util.py:171 is
\* still installed once event_loop was left, and its SystemExit leaves
\* cleanup at the line that was about to run (where event_loop was never
\* entered the signal ends the process at once, with the same files):
\* line 120, nothing is flushed; line 121, the slice is flushed and the store
\* not opened; lines 78, 81 and 82 of store_database, the temporary file is
\* empty, written, or already renamed
StatManager_sigterm_in_cleanup ==
    /\ ~ProcessEnded
    /\ stat_op' = "cleanup_interrupted"
    /\ \E line \in {120, 121, 78, 81, 82} :
          /\ slices' = IF line = 120 THEN slices ELSE cleanup.slices
          /\ db_file' = IF line \in {120, 121} THEN db_file
                         ELSE IF line = 78 THEN OpenedForStore[1]
                         ELSE IF line = 81 THEN WrittenForStore(Stored)[1]
                         ELSE cleanup.files[1]
          /\ temp_file' = IF line \in {120, 121} THEN temp_file
                           ELSE IF line = 78 THEN OpenedForStore[2]
                           ELSE IF line = 81 THEN WrittenForStore(Stored)[2]
                           ELSE cleanup.files[2]
          /\ persisted' = IF line = 82 THEN cleanup.persisted ELSE persisted
    /\ UNCHANGED <<daemonVars, now, filters, same_file, current_category,
                   current_category_since_ts, ctx, cat, held, open_time,
                   store_pc, db, load_result>>

\* A second of wall clock passes outside event_loop: between the
\* constructors and Backend.attach, or between the end of event_loop and
\* StatManager.cleanup; log and cleanup read the clock at stats.py:114
TickOutsideLoop ==
    /\ pc \in {"attach"} \cup Terminal
    /\ ~ProcessEnded
    /\ now < MaxClock
    /\ now' = now + 1
    /\ UNCHANGED <<loopVars, pc, statVars>>

\* The process ends once event_loop is left: StatManager.cleanup is run
Shutdown ==
    /\ pc \in Terminal
    /\ StatManager_cleanup

\* The process ends once event_loop is left, and a SIGTERM arrives while
\* StatManager.cleanup runs
ShutdownInterrupted ==
    /\ pc \in Terminal
    /\ StatManager_sigterm_in_cleanup

\* The wall clock of the StatManager is set to another value (a clock
\* shift, backward or forward)
StatClockShift ==
    /\ ~ProcessEnded
    /\ \E t \in 0..MaxStatTime : t # now /\ now' = t
    /\ stat_op' = "shift"
    /\ UNCHANGED <<daemonVars, storeVars, filters, same_file, current_category,
                   current_category_since_ts, slices, ctx, cat, held,
                   open_time>>

Init ==
    /\ InitDaemons
    /\ StatManagerConstructed(ShippedFilters)
    /\ TempBesideStore

Next ==
    \/ StartCycle
    \/ Activate
    \/ ManualAny
    \/ \E r \in {"True", "False"} : ActivateReturns(r)
    \/ ActivateRaises
    \/ Wait
    \/ \E ready \in SUBSET Daemons : SelectData(ready)
    \/ SelectTimeout
    \/ sigterm_handler
    \/ Tick

\* The event loop of any daemons, with SIGTERM arriving between two steps
\* of the loop and inside its finally clause
Spec == Init /\ [][Next]_vars

\* the same with SIGTERM arriving at any line of event_loop and _activate
NextSigterm ==
    \/ Next
    \/ sigterm_in_reset
    \/ sigterm_in_activate
    \/ \E r \in {"True", "False"} : sigterm_in_return(r)
    \/ sigterm_in_wake

SpecSigterm == Init /\ [][NextSigterm]_vars

\* The callback that runs asks for its own activation again, however often
\* it ran.
ManualSelf ==
    /\ pc = "callback"
    /\ activate_manually(running)

\* A callback that runs for the second time in a cycle belongs to a daemon
\* that asks for its own activation on every call: it returns only after
\* having asked.
ReturnsAfterRequest(r) ==
    /\ pc = "callback"
    /\ activation_counter[running] >= 2 =>
          activation_reason[running] = ACTIVATED_MANUAL
    /\ ActivateReturns(r)

\* The event loop with callbacks that reactivate themselves without bound
NextReactivation ==
    \/ StartCycle
    \/ Activate
    \/ ManualSelf
    \/ \E r \in {"True", "False"} : ReturnsAfterRequest(r)
    \/ Wait
    \/ \E ready \in SUBSET Daemons : SelectData(ready)
    \/ SelectTimeout

SpecReactivation == Init /\ [][NextReactivation]_vars

\* A callback that runs for the third time in a cycle belongs to a daemon
\* that from then on asks for its own activation on every call; before, it
\* asks or not.
ReturnsOrKeepsOn(r) ==
    /\ pc = "callback"
    /\ activation_counter[running] >= 3 =>
          activation_reason[running] = ACTIVATED_MANUAL
    /\ ActivateReturns(r)

\* daemons with descriptors
InitDrain ==
    /\ DaemonsConstructed([d \in Daemons |-> "Daemon"],
                          [d \in Daemons |-> TRUE])
    /\ LoopEntered
    /\ StatManagerConstructed(ShippedFilters)
    /\ TempBesideStore

NextDrain ==
    \/ StartCycle
    \/ Activate
    \/ ManualSelf
    \/ \E r \in {"True", "False"} : ReturnsOrKeepsOn(r)
    \/ Wait
    \/ \E ready \in SUBSET Daemons : SelectData(ready)
    \/ SelectTimeout

\* The drain loop with callbacks that run to their end: event_loop goes on
\* to the next activation, a callback makes its request and returns
SpecDrain ==
    /\ InitDrain
    /\ [][NextDrain]_vars
    /\ WF_vars(Activate)
    /\ WF_vars(ManualSelf)
    /\ WF_vars(\E r \in {"True", "False"} : ReturnsOrKeepsOn(r))

\* The StatManager fed with contexts while time passes
InitStat ==
    /\ InitShipped
    /\ StatManagerConstructed(ShippedFilters)
    /\ AnyStorePath

NextStat ==
    \/ \E x \in Contexts : log(x)
    \/ StatTick

SpecStat == InitStat /\ [][NextStat]_vars

\* log is called while the process runs, before the final cleanup
LogBeforeCleanup(x) ==
    /\ ~ProcessEnded
    /\ log(x)

\* The StatManager fed with contexts on a wall clock that moves forward and
\* backward, up to the final cleanup
NextStatShift ==
    \/ \E x \in Contexts : LogBeforeCleanup(x)
    \/ StatClockShift
    \/ StatManager_cleanup
    \/ StatManager_sigterm_in_cleanup

SpecStatShift == InitStat /\ [][NextStatShift]_vars

\* determine_category on any filter list
InitCategory ==
    /\ \E fs \in FilterLists : InitShipped /\ StatManagerConstructed(fs)
    /\ TempBesideStore

NextCategory == \E x \in Contexts : Determine(x)

SpecCategory == InitCategory /\ [][NextCategory]_vars

\* xstalker: the Backend and the StatManager are constructed, the callback
\* is attached, then event_loop (backend, stat_manager) is called
InitXstalker ==
    /\ ShippedConstructed
    /\ pc = "attach"
    /\ StatManagerConstructed(ShippedFilters)
    /\ AnyStorePath

\* (one daemon has a descriptor and one a timeout: the loops of lines
\* 203-204 and 207-208 have one iteration)
NextXstalker ==
    \/ \E x \in Contexts \cup {NoContext} : attach(x)
    \/ attach_unresolved
    \/ StartCycle
    \/ Activate
    \/ \E x \in Contexts \cup {NoContext} : active_window_changed(x)
    \/ active_window_unresolved
    \/ Backend_activate
    \/ StatManager_activate
    \/ Backend_wait
    \/ \E ready \in SUBSET Daemons : SelectData(ready)
    \/ SelectTimeout
    \/ sigterm_handler
    \/ sigterm_in_reset
    \/ sigterm_in_activate
    \/ Backend_sigterm_in_return
    \/ \E x \in Contexts \cup {NoContext} : sigterm_in_log(x)
    \/ sigterm_in_store
    \/ Tick
    \/ TickOutsideLoop
    \/ Shutdown
    \/ ShutdownInterrupted

SpecXstalker == InitXstalker /\ [][NextXstalker]_vars

\* the same with a window source that may ask event_loop to stop
NextShutdown ==
    \/ NextXstalker
    \/ WindowSourceStops
    \/ WindowSourceStops_sigterm_in_return

SpecShutdown == InitXstalker /\ [][NextShutdown]_vars

\* The store file over starts of the process, saves and interrupted saves
InitStore ==
    /\ InitShipped
    /\ filters = ShippedFilters
    /\ current_category = NoCategory
    /\ current_category_since_ts = None
    /\ slices = <<>>
    /\ ctx = NoContext
    /\ cat = NoCategory
    /\ held = [l \in Labels |-> 0]
    /\ open_time = 0
    /\ stat_op = "start"
    /\ AnyStorePath
    /\ \E ft \in FilesAtStart :
          /\ db_file = ft[1]
          /\ temp_file = IF same_file THEN ft[1] ELSE ft[2]
    /\ store_pc = "idle"
    /\ db = {}
    /\ load_result = "none"
    /\ persisted = 0

NextStore ==
    \/ StatManager_init
    \/ StoreOpen
    \/ StoreWrite
    \/ StoreRename
    \/ StoreInterrupted

SpecStore == InitStore /\ [][NextStore]_vars

\* Fixed-interval daemons without descriptors on a wall clock that shifts
InitClock ==
    /\ DaemonsConstructed([d \in Daemons |-> "FixedIntervalTimeoutDaemon"],
                          [d \in Daemons |-> FALSE])
    /\ LoopEntered
    /\ StatManagerConstructed(ShippedFilters)
    /\ TempBesideStore

NextClock ==
    \/ StartCycle
    \/ Activate
    \/ \E r \in {"True", "False"} : ActivateReturns(r)
    \/ WaitClockJump
    \/ SelectTimeout
    \/ ClockJump

SpecClock == InitClock /\ [][NextClock]_vars

(* ---------------------------------------------------------------------- *)
(* C1: a callback returning False stops the loop                           *)
(* ---------------------------------------------------------------------- *)

\* C1: whenever activate () of a daemon, of either class, has returned False
\* to _activate, event_loop has returned: no callback and no wait follows.
\* (continue_event_loop holds the value until the next callback or wait.)
C1_FalseStopsLoop ==
    continue_event_loop = "False" => pc = "returned"

(* ---------------------------------------------------------------------- *)
(* C2: reactivation-loop guard                                             *)
(* ---------------------------------------------------------------------- *)

\* the fault of line 150 was raised in _activate of the daemon that was
\* picked (a SIGTERM in the finally clause turns it into SystemExit)
C2_FaultRaised ==
    \/ pc = "fault"
    \/ /\ pc = "exited"
       /\ running # 0
       /\ CounterExceeded(activation_counter[running])

\* C2: the counter of a daemon counts the callbacks of that daemon started in
\* the current cycle only (it restarts from zero with every cycle), no daemon
\* has more than ReactivationCeiling callbacks started in one cycle, and the
\* fault is raised exactly at the activation after the ceiling-th.
C2_ReactivationGuard ==
    /\ \A d \in Daemons : cycle_activations[d] <= ReactivationCeiling
    /\ ~C2_FaultRaised =>
          \A d \in Daemons : activation_counter[d] = cycle_activations[d]
    /\ pc = "callback" => activation_counter[running] <= ReactivationCeiling
    /\ C2_FaultRaised =>
          /\ cycle_activations[running] = ReactivationCeiling
          /\ activation_counter[running] = ReactivationCeiling + 1
          /\ \A d \in Daemons \ {running} :
                activation_counter[d] = cycle_activations[d]

\* the fault, raised on a daemon that ran ReactivationCeiling times in the cycle
C2_Witness ==
    /\ pc = "fault"
    /\ cycle_activations[running] = ReactivationCeiling
    /\ activation_reason[running] = ACTIVATED_MANUAL

(* ---------------------------------------------------------------------- *)
(* C3: drain before wait                                                   *)
(* ---------------------------------------------------------------------- *)

NonePending == \A d \in Daemons : activation_reason[d] = NOT_ACTIVATED

C3_Step ==
    \* select is entered from the drain loop only, with nothing pending, and
    \* every daemon the last wake made ready has run in the pass
    /\ (pc # "select" /\ pc' = "select") =>
          /\ pc = "drain"
          /\ NonePending /\ NonePending'
          /\ \A d \in activated_daemons : cycle_activations[d] >= 1
    \* nothing becomes pending while select blocks
    /\ (pc = "select" /\ pc' = "select") => NonePending'
    \* one wait, then the next pass: select is left for the start of a cycle
    /\ (pc = "select" /\ pc' # "select") => pc' \in {"cycle", "exited"}
    /\ pc = "cycle" => pc' \in {"drain", "exited"}
    \* a pass ends in the wait or in the end of the loop
    /\ (pc = "drain" /\ pc' \notin {"drain", "callback"}) =>
          pc' \in {"select", "fault", "exited"}

\* C3: every time select is called no daemon has a pending reason, the
\* daemons made pending during the drain pass have been run before it, and
\* exactly one select is issued between two drain passes.
C3_DrainBeforeWait == [][C3_Step]_vars

\* a wait is reached after a pass in which a daemon ran twice (a manual
\* request of the pass was absorbed)
C3_Witness ==
    /\ pc = "select"
    /\ \E d \in Daemons : cycle_activations[d] >= 2

(* ---------------------------------------------------------------------- *)
(* C4: timeout tie-break                                                   *)
(* ---------------------------------------------------------------------- *)

\* d reported a timeout and no daemon reported a smaller one
IsMinimumTimeout(d) ==
    /\ timeouts[d] # None
    /\ \A e \in Daemons : timeouts[e] # None => timeouts[d] <= timeouts[e]

\* C4: when select returned no ready handle, exactly the daemons whose
\* timeout () equalled the minimum have pending reason TIMEOUT, the others
\* (no timeout, or a larger one) have NOT_ACTIVATED.
C4_TimeoutTieBreak ==
    (pc = "cycle" /\ activated_daemons = {}) =>
        \A d \in Daemons :
            activation_reason[d] =
                IF IsMinimumTimeout(d) THEN ACTIVATED_TIMEOUT ELSE NOT_ACTIVATED

\* a timeout wake with two daemons tied at the minimum
C4_Witness ==
    /\ pc = "cycle" /\ activated_daemons = {}
    /\ \E d, e \in Daemons :
          /\ d # e
          /\ timeouts[d] # None /\ timeouts[d] = timeouts[e]
          /\ activation_reason[d] = ACTIVATED_TIMEOUT
          /\ activation_reason[e] = ACTIVATED_TIMEOUT

(* ---------------------------------------------------------------------- *)
(* C5: data wake                                                           *)
(* ---------------------------------------------------------------------- *)

\* the wake part of C5: after select returned ready handles, exactly their
\* owners are pending, with DATA, and nobody with TIMEOUT
C5_WakeSetsData ==
    (pc = "cycle" /\ activated_daemons # {}) =>
        \A d \in Daemons :
            activation_reason[d] =
                IF d \in activated_daemons THEN ACTIVATED_DATA ELSE NOT_ACTIVATED

\* C5: after a wake with ready handles exactly their owners are pending with
\* DATA, none with TIMEOUT, and in the drain pass that follows each of them
\* is run (its first run of the pass) with current reason DATA.
C5_DataWake ==
    /\ C5_WakeSetsData
    /\ (pc = "callback" /\ running \in activated_daemons
          /\ cycle_activations[running] = 1) =>
            current_activation_reason[running] = ACTIVATED_DATA

(* ---------------------------------------------------------------------- *)
(* C6: activation-reason protocol                                          *)
(* ---------------------------------------------------------------------- *)

AtMostOneCurrent ==
    \A d, e \in Daemons :
        (current_activation_reason[d] # NOT_ACTIVATED
         /\ current_activation_reason[e] # NOT_ACTIVATED) => d = e

NoneCurrent == \A d \in Daemons : current_activation_reason[d] = NOT_ACTIVATED

\* C6 as claimed: in every state outside a callback every current reason is
\* NOT_ACTIVATED, and at most one daemon has another current reason.
C6_Original ==
    /\ pc # "callback" => NoneCurrent
    /\ AtMostOneCurrent

C6_Step ==
    \* the pending reason is captured and cleared before the callback starts
    /\ (pc = "drain" /\ pc' = "callback") =>
          /\ current_activation_reason'[running'] = activation_reason[running']
          /\ current_activation_reason'[running'] # NOT_ACTIVATED
          /\ activation_reason'[running'] = NOT_ACTIVATED
    \* activation_reason () is stable during the callback
    /\ (pc = "callback" /\ pc' = "callback") =>
          current_activation_reason' = current_activation_reason
    \* and reset when the callback returned
    /\ (pc = "callback" /\ pc' \in {"drain", "returned"}) => NoneCurrent'
    \* outside a callback nothing is current, unless an exception left
    \* _activate between the capture and the reset: then the daemon that was
    \* picked keeps the reason it captured
    /\ pc' \notin {"callback", "raised", "exited"} => NoneCurrent'
    /\ (pc # "callback" /\ pc' \in {"raised", "exited"}) =>
          \A d \in Daemons :
              current_activation_reason'[d] # NOT_ACTIVATED =>
                  /\ pc = "drain"
                  /\ d = running'
                  /\ current_activation_reason'[d] = activation_reason[d]
    /\ AtMostOneCurrent'

\* C6 (amended): the pending reason is captured as the current reason and
\* cleared before the callback starts, stays the current reason during the
\* callback and is NOT_ACTIVATED again once the callback returned; every
\* current reason is NOT_ACTIVATED outside a callback unless an exception
\* (an error raised by activate (), SystemExit of the SIGTERM handler) left
\* _activate between the capture and the reset; at most one daemon has a
\* current reason at any time.
C6_ReasonProtocol == [][C6_Step]_vars

\* inside a callback woken by data that asked for its own reactivation: the
\* current reason is still DATA while MANUAL is pending
C6_Witness ==
    /\ pc = "callback"
    /\ current_activation_reason[running] = ACTIVATED_DATA
    /\ activation_reason[running] = ACTIVATED_MANUAL

(* ---------------------------------------------------------------------- *)
(* C7: category change                                                     *)
(* ---------------------------------------------------------------------- *)

C7_Step ==
    (stat_op' = "log" /\ has_value(current_category) /\ cat' # current_category) =>
        /\ slices' = Append(slices, <<current_category,
                                      current_category_since_ts, now>>)
        /\ current_category' = cat'
        /\ current_category_since_ts' = now
        /\ slices'[Len(slices')][3] = current_category_since_ts'

\* C7: when log gets an input of another category than the tracked one, the
\* slice (current category, since, now) is handed to the store exactly once,
\* with the values from before the overwrite, and the new slice starts at
\* the now that ended it.
C7_CategoryChange == [][C7_Step]_vars

\* a change of category flushed a slice of one second or more
C7_Witness ==
    /\ stat_op = "log"
    /\ Len(slices) >= 1
    /\ slices[Len(slices)][1] # current_category
    /\ has_value(current_category)
    /\ slices[Len(slices)][2] < slices[Len(slices)][3]
    /\ slices[Len(slices)][3] = current_category_since_ts

(* ---------------------------------------------------------------------- *)
(* C8: same-category input                                                 *)
(* ---------------------------------------------------------------------- *)

C8_Step ==
    (stat_op' = "log" /\ cat' = current_category) =>
        UNCHANGED <<slices, current_category, current_category_since_ts>>

\* C8: a log whose input has the current category, both absent included,
\* flushes nothing and leaves current category and since-timestamp alone.
C8_SameCategoryNoOp == [][C8_Step]_vars

(* ---------------------------------------------------------------------- *)
(* C9: slice accounting                                                    *)
(* ---------------------------------------------------------------------- *)

\* sum of to - from over the slices of category l among the first n
RECURSIVE FlushedSeconds(_, _)
FlushedSeconds(l, n) ==
    IF n = 0 THEN 0
    ELSE FlushedSeconds(l, n - 1)
         + (IF slices[n][1] = l THEN slices[n][3] - slices[n][2] ELSE 0)

\* C9: for every category the durations of its flushed slices add up to the
\* time it was current, less the time of the slice that is still open.
C9_SliceAccounting ==
    \A l \in Labels :
        FlushedSeconds(l, Len(slices)) =
            held[l] - (IF current_category = l THEN open_time ELSE 0)

\* a category was flushed twice, with time in both slices
C9_Witness ==
    /\ Len(slices) >= 2
    /\ slices[1][1] = slices[2][1]
    /\ slices[1][3] > slices[1][2]
    /\ slices[2][3] > slices[2][2]

(* ---------------------------------------------------------------------- *)
(* C10: first match wins                                                   *)
(* ---------------------------------------------------------------------- *)

\* the positions of the filters that accept x
Accepting(fs, x) == {i \in 1..Len(fs) : x \in fs[i].p}

\* C10: determine_category returns the category of the first filter of the
\* list that accepts the input, and None exactly when none accepts it.
C10_FirstMatchWins ==
    stat_op = "determine" =>
        LET acc == Accepting(filters, ctx)
        IN  /\ (acc = {}) <=> (cat = NoCategory)
            /\ acc # {} =>
                  \E i \in acc : /\ \A j \in acc : i <= j
                                 /\ cat = filters[i].c

\* two filters of different categories accept the input, the first one won
C10_Witness ==
    /\ stat_op = "determine"
    /\ \E i, j \in Accepting(filters, ctx) :
          /\ i < j
          /\ filters[i].c # filters[j].c
          /\ cat = filters[i].c

(* ---------------------------------------------------------------------- *)
(* C11: timeout clamp                                                      *)
(* ---------------------------------------------------------------------- *)


\* C11: whatever the wall clock shows, after shifts backward and forward
\* included, timeout () of a fixed-interval daemon is at least 0 and at most
\* its interval, and so is every value event_loop got from it.
C11_TimeoutClamp ==
    \A d \in ClockReaders :
        /\ 0 <= FixedIntervalTimeout(d, now)
        /\ FixedIntervalTimeout(d, now) <= interval_sec[d]
        /\ pc = "select" =>
              (0 <= timeouts[d] /\ timeouts[d] <= interval_sec[d])

\* event_loop computed its timeout when, after clock shifts, one daemon had
\* more than its interval left and another was overdue: both clamps acted
C11_Witness ==
    /\ pc = "select"
    /\ \E d, e \in ClockReaders :
          /\ next_timeout_timestamp_sec[d] - now > interval_sec[d]
          /\ timeouts[d] = interval_sec[d]
          /\ next_timeout_timestamp_sec[e] - now < 0
          /\ timeouts[e] = 0

(* ---------------------------------------------------------------------- *)
(* C12: cadence reset                                                      *)
(* ---------------------------------------------------------------------- *)

C12_Step ==
    \A d \in Daemons :
        (pc = "drain" /\ pc' = "callback" /\ running' = d
         /\ kind[d] = "FixedIntervalTimeoutDaemon") =>
            /\ activation_reason[d] \in
                  {ACTIVATED_MANUAL, ACTIVATED_TIMEOUT, ACTIVATED_DATA}
            /\ next_timeout_timestamp_sec'[d] = now + interval_sec[d]
            /\ FixedIntervalTimeout(d, now)' = interval_sec[d]

\* C12: when the scheduler activates a fixed-interval daemon, for whichever
\* reason, its next timeout is now + interval when its callback starts, and
\* the timeout () it reports then is its interval.
C12_CadenceReset == [][C12_Step]_vars

\* the callback of a fixed-interval daemon runs for a manual request at a
\* time later than its construction, its next timeout moved accordingly
C12_Witness ==
    /\ pc = "callback"
    /\ kind[running] = "FixedIntervalTimeoutDaemon"
    /\ current_activation_reason[running] = ACTIVATED_MANUAL
    /\ now >= 1
    /\ next_timeout_timestamp_sec[running] = now + interval_sec[running]

(* ---------------------------------------------------------------------- *)
(* C13: the periodic save leaves the slice open                            *)
(* ---------------------------------------------------------------------- *)

C13_Step ==
    (pc = "callback" /\ running = 2 /\ pc' = "drain") =>
        /\ current_activation_reason[2] = ACTIVATED_TIMEOUT
        /\ db_file' = Stored
        /\ persisted' = Len(slices)
        /\ UNCHANGED <<current_category, current_category_since_ts, slices>>

\* C13: the activation of the StatManager by its timeout writes the store
\* file and leaves the current category, the since-timestamp and the calls
\* the store has received (no slice is flushed) as they were.
C13_PeriodicSave == [][C13_Step]_vars

\* the store was saved while a category had been tracked for a second
C13_Witness ==
    /\ stat_op = "activate"
    /\ pc = "drain"
    /\ db_file = Stored
    /\ has_value(current_category)
    /\ current_category_since_ts < now
    /\ slices = <<>>

(* ---------------------------------------------------------------------- *)
(* C14: shutdown flush                                                     *)
(* ---------------------------------------------------------------------- *)

C14_Step ==
    \* the process ends only after event_loop was left, with the current
    \* slice flushed with now as its end and the store then written with that
    \* slice received
    /\ (~ProcessEnded /\ ProcessEnded') =>
          /\ pc \in Terminal
          /\ slices' = IF has_value(current_category)
                       THEN Append(slices, <<current_category,
                                             current_category_since_ts, now>>)
                       ELSE slices
          /\ persisted' = Len(slices')
          /\ db_file' = Stored
    \* and nothing runs after it
    /\ ProcessEnded => UNCHANGED vars

\* C14: however the process terminates (SIGTERM, a callback returning False,
\* an exception), it ends with the current slice flushed, if a category is
\* tracked, with now as its end, and the store written after that.
C14_ShutdownFlush == [][C14_Step]_vars

(* ---------------------------------------------------------------------- *)
(* C17: contained classification faults                                    *)
(* ---------------------------------------------------------------------- *)

\* C17: a focus change whose window cannot be resolved is treated as
\* uncategorized: no exception leaves activate () of the Backend (daemon 1)
\* and event_loop goes on.
C17_ClassificationFaultContained ==
    running = 1 => pc # "raised"

(* ---------------------------------------------------------------------- *)
(* C15: atomic persistence                                                 *)
(* ---------------------------------------------------------------------- *)

C15_Step ==
    \* the store file changes by the rename of a completely written
    \* temporary file only
    /\ db_file' # db_file =>
          /\ store_pc = "closed"
          /\ temp_file = Stored
          /\ db_file' = temp_file
    \* an interrupted store_database leaves the store file as it was
    /\ stat_op' = "interrupted" => db_file' = db_file

\* C15: the store file only ever changes by the rename of a completely
\* written temporary file; when store_database is interrupted while it
\* writes the temporary file or before the rename, the store file holds
\* what it held before.
C15_AtomicPersistence == [][C15_Step]_vars

(* ---------------------------------------------------------------------- *)
(* C16: contained load faults                                              *)
(* ---------------------------------------------------------------------- *)

\* the store file is missing, or its version field is missing, not an
\* integer, or not the expected version
FaultyStore(f) ==
    \/ f.kind \in {"missing", "empty", "truncated", "unterminated", "str"}
    \/ f.kind = "int" /\ f.version # Database_version

C16_Step ==
    (stat_op \in {"start", "interrupted"} /\ stat_op' # stat_op) =>
        \* the construction completes, nothing was raised
        /\ stat_op' = "init"
        /\ load_result' \in {"loaded", "not_found", "error"}
        \* the in-memory store is empty, the files are as they were
        /\ db' = {}
        /\ db_file' = db_file
        /\ temp_file' = temp_file
        \* a faulty file is not taken for a store
        /\ FaultyStore(db_file) =>
              load_result' = IF db_file = MissingFile THEN "not_found"
                             ELSE "error"

\* C16: constructing the StatManager on a store file that is missing, or
\* whose version is missing, not an integer or not the expected one, raises
\* nothing and completes, with an empty in-memory store and the file as it
\* was.
C16_ContainedLoadFaults == [][C16_Step]_vars

\* the StatManager was constructed on a file whose version is not an integer
C16_Witness ==
    /\ stat_op = "init"
    /\ load_result = "error"
    /\ db_file = StrFile
    /\ db = {}

(* ---------------------------------------------------------------------- *)
(* C18: interruptible wait                                                 *)
(* ---------------------------------------------------------------------- *)

C18_Step ==
    \* SIGTERM during select ends event_loop with the selector closed, no
    \* daemon started by it
    /\ (pc = "select" /\ pc' = "exited") =>
          /\ selector_closed'
          /\ UNCHANGED <<current_activation_reason, cycle_activations, running>>
    \* select is left for the next cycle or for the end only
    /\ (pc = "select" /\ pc' # "select") => pc' \in {"cycle", "exited"}
    \* and after the end no callback is started
    /\ pc = "exited" =>
          /\ pc' = "exited"
          /\ UNCHANGED <<cycle_activations, running,
                         current_activation_reason>>

\* C18: a SIGTERM that arrives while event_loop blocks in select ends the
\* loop, the selector is closed on the way out, and no callback is started
\* afterwards.
C18_InterruptibleWait == [][C18_Step]_vars

(* ---------------------------------------------------------------------- *)
(* C19: deterministic, starvation-free drain                               *)
(* ---------------------------------------------------------------------- *)

C19_Step ==
    (pc = "drain" /\ pc' = "callback") =>
        /\ _is_activated(running')
        /\ \A e \in Daemons : _is_activated(e) => running' <= e

\* d is pending in a drain pass
C19_Pending(d) == pc \in {"drain", "callback"} /\ _is_activated(d)

\* the pending reason of d was taken by a run of d, or event_loop is over
C19_Served(d) == ~_is_activated(d) \/ pc \in Terminal

\* C19: the drain loop always runs the first pending daemon in registration
\* order, and a daemon that is pending in a drain pass is run in that pass
\* unless event_loop ends (a callback returned False, or the reactivation
\* fault): an earlier daemon that keeps reactivating itself postpones it
\* only until the fault.
C19_FairDrain ==
    /\ [][C19_Step]_vars
    /\ \A d \in Daemons : C19_Pending(d) ~> C19_Served(d)

\* the second daemon runs, for the data it was woken with, after the first
\* one reactivated itself and ran twice in the same pass
C19_Witness ==
    /\ pc = "callback"
    /\ running = 2
    /\ current_activation_reason[2] = ACTIVATED_DATA
    /\ cycle_activations[1] >= 2
    /\ cycle_activations[2] = 1

(* ---------------------------------------------------------------------- *)
(* C20: manual activation request                                          *)
(* ---------------------------------------------------------------------- *)

C20_Step ==
    \A d \in Daemons :
        (pc = "callback" /\ pc' = "callback"
         /\ activation_reason'[d] # activation_reason[d]) =>
            /\ activation_reason[d] = NOT_ACTIVATED
            /\ activation_reason'[d] = ACTIVATED_MANUAL

\* C20: activate_manually, called during a callback, changes the pending
\* reason of its target to MANUAL only when the target is not activated; a
\* pending DATA or TIMEOUT reason is kept.
C20_ManualKeepsPending == [][C20_Step]_vars

(* ---------------------------------------------------------------------- *)
(* C21: the assertion of StatManager.activate                              *)
(* ---------------------------------------------------------------------- *)

\* C21: under event_loop (backend, stat_manager) the StatManager (daemon 2)
\* is made pending by a timeout only, its callback runs with the current
\* reason TIMEOUT only, and its assertion never raises.
C21_AssertionHolds ==
    /\ activation_reason[2] \in {NOT_ACTIVATED, ACTIVATED_TIMEOUT}
    /\ (pc = "callback" /\ running = 2) =>
          current_activation_reason[2] = ACTIVATED_TIMEOUT
    /\ running = 2 => pc # "raised"

\* the callback of the StatManager runs for its timeout, a second after the
\* Backend was woken by data and had a category logged
C21_Witness ==
    /\ pc = "callback"
    /\ running = 2
    /\ current_activation_reason[2] = ACTIVATED_TIMEOUT
    /\ has_value(current_category)
    /\ current_category_since_ts < now

(* ---------------------------------------------------------------------- *)
(* C22: well-formed slices                                                 *)
(* ---------------------------------------------------------------------- *)

\* C22: every slice handed to add_time_slice_for_category, by log or by the
\* final cleanup, has a category, a start timestamp that is set and a start
\* not later than its end; and whenever a category is current the
\* since-timestamp is set and not later than the wall clock.
C22_WellFormedSlices ==
    /\ \A i \in 1..Len(slices) :
          /\ has_value(slices[i][1])
          /\ slices[i][2] # None
          /\ slices[i][2] <= slices[i][3]
    /\ has_value(current_category) =>
          /\ current_category_since_ts # None
          /\ current_category_since_ts <= now

====
